---- MODULE Spec2Model ----
(***************************************************************************)
(* CURSED COMPOSER v2 (src/unnamed/part_000): a seed hash is bit-sliced    *)
(* into musical parameters, a planner schedules pad / bass / arpeggio /    *)
(* melody note events, synth_note_stereo accumulates each event into two   *)
(* int32 buffers, apply_reverb runs five in-place delay taps and write_wav *)
(* clamps, interleaves and serialises the buffers as a RIFF/WAVE file.     *)
(*                                                                         *)
(* Scaling.  The buffers of the program hold 45 s at 44100 frames/s.  The  *)
(* model runs the same code at SAMPLE_RATE frames/s (a bound), with the    *)
(* reverb delays scaled by the same factor, so that MAX_FRAMES stays       *)
(* SAMPLE_RATE * 45.  C `int` is IntBits wide (two's complement); the      *)
(* int32 accumulators, the uint32 PRNG and the 16-bit samples keep their   *)
(* widths.                                                                 *)
(*                                                                         *)
(* Floating point.  Times are exact: the planner counts in units of        *)
(* 0.01/tempo s (a beat is 6000 units) and hands synth_note_stereo ticks   *)
(* of 0.1 ms.  sin/cos/pow/tanh are replaced by tables: frequencies are    *)
(* rounded to 1 Hz, the pan gains to 1/1000 at 1 % pan steps, the          *)
(* oscillator to an 8-point sine scaled by the timbre's partial weights.   *)
(* Every gain-like value is an integer per-mille (pm).                     *)
(*                                                                         *)
(* Specifications.  Spec is main run on a name, once and again: hash,      *)
(* calloc, derived parameters, the planner bar by bar and slot by slot,    *)
(* apply_reverb, write_wav and the report; the environment chooses which   *)
(* allocations, opens and writes fail, the byte order of the host, and     *)
(* whether the oracle rejects the interval query.  SpecSynth is a caller   *)
(* that hands synth_note_stereo events main never makes (outside the       *)
(* buffer, outside int, louder than 1), then calls apply_reverb and        *)
(* write_wav.  SpecReverb is apply_reverb run on dry buffers given as      *)
(* such: levels held, alternating or in one frame.  The oracle (mahler.h)  *)
(* is modelled from its interface.                                         *)
(***************************************************************************)
EXTENDS Integers, Sequences, FiniteSets

(***************************************************************************)
(* Bounds of the model                                                     *)
(***************************************************************************)
\* frames per second of the scaled build (44100 in the program)
SAMPLE_RATE == 12
\* width of C int in the scaled build (32 in the program)
IntBits == 16
\* cells of foreign memory on either side of each accumulator array
RedZone == 2
\* synth_note_stereo calls made by the free-standing caller of SpecSynth
MaxCalls == 2
\* runs of the program, one after another
MaxRuns == 2

(***************************************************************************)
(* Program constants                                                       *)
(***************************************************************************)
REAL_SAMPLE_RATE == 44100
CHANNELS == 2
BITS_PER_SAMP == 16
MAX_SECONDS == 45
\* mutant of MAX_FRAMES: buffers of half a minute
FramesOfHalfMinute == SAMPLE_RATE * 30
MAX_FRAMES == SAMPLE_RATE * MAX_SECONDS

\* synth_note_stereo takes its times in ticks of 0.1 ms
TicksPerSec == 10 * 1000

IntModulus == 2 ^ IntBits
MaxInt == 2 ^ (IntBits - 1) - 1
MinInt == -(2 ^ (IntBits - 1))

\* C integer division and double -> integer conversion truncate toward zero
TruncDiv(a, b) == IF a >= 0 THEN a \div b ELSE -((-a) \div b)

\* two's complement wrap of an int (signed overflow of start + i)
WrapInt(x) == ((x - MinInt) % IntModulus) + MinInt

\* (int)x for a double x with an integral value: defined when x fits; out of
\* range it is undefined, and builds yield INT_MIN (x86) or saturate (ARM)
ToIntSet(x) ==
    IF x >= MinInt /\ x <= MaxInt THEN {x}
    ELSE {MinInt, IF x < 0 THEN MinInt ELSE MaxInt}

\* mutant of Add32: the store replaces the accumulator value (= for +=)
Overwrite32(a, b) == b

\* int32 accumulator arithmetic: g_left[idx] += v
MaxInt32 == 2147483647
Add32(a, b) ==
    IF b > 0 /\ a > MaxInt32 - b THEN ((a - MaxInt32) - 1) + ((b - MaxInt32) - 1)
    ELSE IF b < 0 /\ a < (-MaxInt32 - 1) - b THEN (a + MaxInt32) + 1 + (b + MaxInt32) + 1
    ELSE a + b

(***************************************************************************)
(* Notes and frequencies                                                   *)
(***************************************************************************)
SEMITONE_MAP == <<0, 2, 4, 5, 7, 9, 11>>

\* round(440 * 2^((midi - 69) / 12)) for midi = 0 .. 127
FreqTable ==
    <<8, 9, 9, 10, 10, 11, 12, 12, 13, 14, 15, 15, 16, 17, 18, 19,
      21, 22, 23, 24, 26, 28, 29, 31, 33, 35, 37, 39, 41, 44, 46, 49,
      52, 55, 58, 62, 65, 69, 73, 78, 82, 87, 92, 98, 104, 110, 117, 123,
      131, 139, 147, 156, 165, 175, 185, 196, 208, 220, 233, 247, 262, 277, 294, 311,
      330, 349, 370, 392, 415, 440, 466, 494, 523, 554, 587, 622, 659, 698, 740, 784,
      831, 880, 932, 988, 1047, 1109, 1175, 1245, 1319, 1397, 1480, 1568, 1661, 1760, 1865, 1976,
      2093, 2217, 2349, 2489, 2637, 2794, 2960, 3136, 3322, 3520, 3729, 3951, 4186, 4435, 4699, 4978,
      5274, 5588, 5920, 6272, 6645, 7040, 7459, 7902, 8372, 8870, 9397, 9956, 10548, 11175, 11840, 12544>>

\* a note is [tone |-> 0..6 (C..B), acci |-> accidental, pitch |-> octave]
note_to_freq(n) ==
    LET m0 == 12 * (n.pitch + 1) + SEMITONE_MAP[n.tone + 1] + n.acci
        m1 == IF m0 < 0 THEN 0 ELSE m0
        midi == IF m1 > 127 THEN 127 ELSE m1
    IN  FreqTable[midi + 1]

(***************************************************************************)
(* ADSR envelope, in per-mille; times in ticks of 0.1 ms                   *)
(***************************************************************************)
envelope(t, dur, attack, decay, sustain_level, release) ==
    LET rel == IF release * 10 > dur * 4 THEN TruncDiv(dur * 4, 10) ELSE release
        sustain_end == dur - rel
    IN  IF t < attack THEN (t * 1000) \div attack
        ELSE IF t < attack + decay
             THEN 1000 - ((1000 - sustain_level) * (t - attack)) \div decay
        ELSE IF t < sustain_end THEN sustain_level
        ELSE IF rel = 0 THEN 0
        ELSE TruncDiv(sustain_level * (dur - t), rel)

(***************************************************************************)
(* Timbres                                                                 *)
(***************************************************************************)
TIMBRE_PIANO == "piano"
TIMBRE_PAD == "pad"
TIMBRE_BASS == "bass"

\* sin(2 pi k / 8) * 1000
Sine8 == <<0, 707, 1000, 707, 0, -707, -1000, -707>>

\* sum of the partial weights of a timbre (the bound of |oscillator|), pm:
\* piano .50+.20+.12+.06+.03+.05, pad .60+.30+.08, bass tanh(..)*.7
TimbreLevel(timbre) ==
    IF timbre = TIMBRE_PIANO THEN 960
    ELSE IF timbre = TIMBRE_PAD THEN 980
    ELSE 700

\* oscillator(freq, t, timbre), pm: the phase 2 pi freq t is cut to eighths
\* of a cycle; t in ticks
oscillator(freq, t, timbre) ==
    LET cyc == ((freq % TicksPerSec) * (t % TicksPerSec)) % TicksPerSec
        k == (cyc * 8) \div TicksPerSec
    IN  TruncDiv(Sine8[k + 1] * TimbreLevel(timbre), 1000)

\* cos(p/100 * pi/2) * 1000 for p = 0 .. 100
CosTable ==
    <<1000, 999, 999, 998, 998, 996, 995, 993, 992, 990, 987, 985, 982, 979, 975, 972, 968, 964, 960, 955,
      951, 946, 940, 935, 929, 923, 917, 911, 904, 898, 891, 883, 876, 868, 860, 852, 844, 835, 827, 818,
      809, 799, 790, 780, 770, 760, 750, 739, 728, 718, 707, 695, 684, 673, 661, 649, 637, 625, 612, 600,
      587, 575, 562, 549, 535, 522, 509, 495, 481, 467, 453, 439, 425, 411, 397, 382, 368, 353, 338, 323,
      309, 294, 278, 263, 248, 233, 218, 202, 187, 171, 156, 140, 125, 109, 94, 78, 62, 47, 31, 15,
      0>>

\* constant-power pan law; pan in percent
LeftGain(pan) == CosTable[pan + 1]
RightGain(pan) == CosTable[(100 - pan) + 1]

(***************************************************************************)
(* State                                                                   *)
(***************************************************************************)
VARIABLES
    pc,             \* position of the program
    g_left,         \* int32 array of MAX_FRAMES frames with its red zones,
    g_right,        \*   or NULL
    g_num_frames,   \* one more than the highest frame written
    stores,         \* frame indices stored to by the last synth_note_stereo
    call_start,     \* synth_note_stereo: int start of the last call
    call_len,       \* synth_note_stereo: int len of the last call
    call_ev,        \* synth_note_stereo: the event being rendered, or NULL
    calls,          \* synth_note_stereo calls made by the caller of SpecSynth
    tap,            \* apply_reverb: index of the next tap
    dry,            \* apply_reverb: the buffers on entry
    tap_in,         \* apply_reverb: the buffers before the last tap run
    host,           \* byte order of the host: "unknown" until first used
    disk,           \* the file at the output path: NoFile or its bytes
    f,              \* write_wav: the stream, "closed" | "open"
    interleaved,    \* write_wav: the int16 array, NULL until allocated
    data_size,      \* write_wav: uint32_t data_size
    file_size,      \* write_wav: uint32_t file_size
    io_failed,      \* a write to the stream has failed
    wav_ret,        \* result of write_wav, -1 until it returns
    name,           \* argv[1] (or "Mahler"), as character codes
    inter_fails,    \* the oracle linked in rejects the interval query
    run_no,         \* number of this run of the program; the clock
    prev,           \* what the previous run produced
    h,              \* unsigned h, as <<high 16 bits, low 16 bits>>
    g_rng,          \* unsigned g_rng, as <<high 16 bits, low 16 bits>>
    par,            \* root_tone, root_acci, prog_idx, arp_idx, tempo_bpm,
                    \*   is_minor, swing
    scale_notes,    \* the notes of the scale
    sd,             \* scale.size - 1
    cursor,         \* double cursor, in units of 0.01/tempo_bpm s
    mel_pos,        \* the melody's scale degree
    rep,            \* main section: repetition
    chord_c,        \* intro and main section: the loop variable c
    slot_n,         \* melody: the loop variable n
    rng_trace,      \* every value g_rng has taken in this run
    oracle_failed,  \* an oracle query of this run has failed
    alloc_failed,   \* an allocation of this run has failed
    report,         \* what main printed about the file: "" | "Wrote" | "Failed"
    exit_code,      \* exit status of main, -1 while it runs
    result          \* what this run produced, recorded as main returns

bufvars == <<g_left, g_right, g_num_frames, stores, call_start, call_len, call_ev>>
revvars == <<tap, dry, tap_in>>
wavvars == <<host, disk, f, interleaved, data_size, file_size, io_failed, wav_ret>>
idvars == <<name, inter_fails, run_no, prev>>
planvars == <<h, g_rng, par, scale_notes, sd, cursor, mel_pos, rep, chord_c, slot_n,
              rng_trace, oracle_failed>>
outvars == <<report, exit_code, result>>
mainvars == <<idvars, planvars, outvars>>
vars == <<pc, bufvars, calls, revvars, wavvars, mainvars, alloc_failed>>

NULL == <<>>
Cells == (0 - RedZone) .. (MAX_FRAMES - 1 + RedZone)
Frames == 0 .. (MAX_FRAMES - 1)
\* calloc(MAX_FRAMES, sizeof(int32_t)): zero-filled (the red zones are
\* foreign memory, taken as zero so that a stray store shows)
Calloc == [c \in Cells |-> 0]

(***************************************************************************)
(* synth_note_stereo                                                       *)
(***************************************************************************)
\* a note event: times in ticks, volume and sustain in pm, pan in percent
NoteEvent(freq, start, dur, vol, pan, timbre, atk, dec, sus, rel) ==
    [freq |-> freq, start |-> start, dur |-> dur, vol |-> vol, pan |-> pan,
     timbre |-> timbre, atk |-> atk, dec |-> dec, sus |-> sus, rel |-> rel]

\* mutant of BoundsOk: the end test off by one
BoundsOkOffByOne(idx) == ~(idx < 0 \/ idx > MAX_FRAMES)

\* the test of line 109: the frame idx may be stored to
BoundsOk(idx) == ~(idx < 0 \/ idx >= MAX_FRAMES)

\* the i for which idx = start + i (int arithmetic), 0 <= i < 2^IntBits
LoopIndex(start, idx) == (idx - start) % IntModulus

\* the loop `for (i = 0; i < len; i++)` reaches idx and does not skip it
Hit(start, len, idx) == LoopIndex(start, idx) < len /\ BoundsOk(idx)

RECURSIVE TopHit(_, _, _, _)
\* the highest cell of lo .. hi the loop stores to, or MinInt
TopHit(start, len, lo, hi) ==
    IF lo = hi THEN (IF Hit(start, len, lo) THEN lo ELSE MinInt)
    ELSE LET mid == (lo + hi) \div 2
             up == TopHit(start, len, mid + 1, hi)
         IN  IF up # MinInt THEN up ELSE TopHit(start, len, lo, mid)

\* sample = oscillator(freq, t, timbre) * env * volume * 10000.0
Sample(ev, i) ==
    LET t == (i * TicksPerSec) \div SAMPLE_RATE
        env == envelope(t, ev.dur, ev.atk, ev.dec, ev.sus, ev.rel)
        osc == oscillator(ev.freq, t, ev.timbre)
    IN  TruncDiv(TruncDiv(osc * env, 1000) * ev.vol, 100)

\* the buffers after synth_note_stereo with start and len already converted
synth_note_stereo(b, ev, start, len) ==
    LET l_gain == LeftGain(ev.pan)
        r_gain == RightGain(ev.pan)
        top == TopHit(start, len, 0 - RedZone, MAX_FRAMES - 1 + RedZone)
    IN  [left |-> [c \in Cells |->
                    IF Hit(start, len, c)
                    THEN Add32(b.left[c],
                               TruncDiv(Sample(ev, LoopIndex(start, c)) * l_gain, 1000))
                    ELSE b.left[c]],
         right |-> [c \in Cells |->
                    IF Hit(start, len, c)
                    THEN Add32(b.right[c],
                               TruncDiv(Sample(ev, LoopIndex(start, c)) * r_gain, 1000))
                    ELSE b.right[c]],
         num_frames |-> IF top >= b.num_frames THEN top + 1 ELSE b.num_frames,
         stores |-> {c \in Cells : Hit(start, len, c)}]

\* start = (int)(start_sec * SAMPLE_RATE), len = (int)(duration * SAMPLE_RATE)
StartFrame(ev) == TruncDiv(ev.start * SAMPLE_RATE, TicksPerSec)
LenFrames(ev) == TruncDiv(ev.dur * SAMPLE_RATE, TicksPerSec)

Buffers == [left |-> g_left, right |-> g_right, num_frames |-> g_num_frames,
            stores |-> stores]

SetBuffers(b) ==
    /\ g_left' = b.left
    /\ g_right' = b.right
    /\ g_num_frames' = b.num_frames
    /\ stores' = b.stores

(***************************************************************************)
(* apply_reverb                                                            *)
(***************************************************************************)
delays == <<4410, 7350, 11025, 15876, 21609>>
\* gains[] = { 0.25, 0.18, 0.13, 0.09, 0.05 }, in percent
gains == <<25, 18, 13, 9, 5>>
num_taps == 5

\* delays[tap] at the sample rate of the scaled build
Delay(t) == (delays[t + 1] * SAMPLE_RATE) \div REAL_SAMPLE_RATE

\* (int32_t)(v * g), g in percent
Echo(v, g) == TruncDiv(v * g, 100)

\* mutant of TapSource: the echo read from the buffer as it was on entry
TapSourceDry(running, before, entry) == entry

\* the value an echo is made of, g_left[i - d] of line 147: the frame as the
\* loop has left it in the array being written (not as it was before this
\* tap, nor as it was on entry of apply_reverb)
TapSource(running, before, entry) == running

RunLen == 2 ^ 5

RECURSIVE TapRun(_, _, _, _, _, _, _, _, _)
\* the loop body `g[i] += (int32_t)(g[i - d] * gain)` for i .. last; y holds
\* the frames 0 .. i0-1 and run the frames i0 .. i-1 as the loop has left
\* them, a is the array before this tap, orig the array on entry
TapRun(run, y, a, orig, d, g, i0, i, last) ==
    IF i > last \/ Len(run) < i - i0 THEN run
    ELSE LET k == i - d
             running == IF k >= i0 THEN run[k - i0 + 1] ELSE y[k + 1]
         IN  TapRun(Append(run, Add32(a[i], Echo(TapSource(running, a[k], orig[k]), g))),
                    y, a, orig, d, g, i0, i + 1, last)

RECURSIVE TapLoop(_, _, _, _, _, _, _)
\* the loop `for (i = d; i < n; i++)`, run in stretches of RunLen frames
TapLoop(y, a, orig, d, g, i, n) ==
    IF i >= n \/ Len(y) < i THEN y
    ELSE LET last == IF i + RunLen - 1 < n - 1 THEN i + RunLen - 1 ELSE n - 1
         IN  TapLoop(y \o TapRun(<<>>, y, a, orig, d, g, i, i, last),
                     a, orig, d, g, last + 1, n)

\* mutant of ApplyTap: the loop runs to the end of the buffer, not to
\* g_num_frames
ApplyTapToEnd(a, orig, n, t) ==
    LET d == Delay(t)
        y == TapLoop([k \in 1 .. d |-> a[k - 1]], a, orig, d, gains[t + 1], d, MAX_FRAMES)
    IN  [c \in Cells |-> IF c >= 0 /\ c < MAX_FRAMES THEN y[c + 1] ELSE a[c]]

\* one channel after one tap
ApplyTap(a, orig, n, t) ==
    LET d == Delay(t)
        keep == IF d < n THEN d ELSE n
        y == TapLoop([k \in 1 .. keep |-> a[k - 1]], a, orig, d, gains[t + 1], d, n)
    IN  [c \in Cells |-> IF c >= 0 /\ c < n THEN y[c + 1] ELSE a[c]]

\* entry of apply_reverb
ReverbEnter ==
    /\ pc = "apply_reverb"
    /\ tap' = 0
    /\ dry' = [left |-> g_left, right |-> g_right]
    /\ tap_in' = [left |-> g_left, right |-> g_right]
    /\ pc' = "tap"
    /\ UNCHANGED <<mainvars, alloc_failed, bufvars, calls, wavvars>>

\* one iteration of `for (tap = 0; tap < num_taps; tap++)`
ReverbTap ==
    /\ pc = "tap"
    /\ tap < num_taps
    /\ tap_in' = [left |-> g_left, right |-> g_right]
    /\ g_left' = ApplyTap(g_left, dry.left, g_num_frames, tap)
    /\ g_right' = ApplyTap(g_right, dry.right, g_num_frames, tap)
    /\ tap' = tap + 1
    /\ UNCHANGED <<mainvars, alloc_failed, pc, g_num_frames, stores, call_start, call_len, call_ev, calls, dry, wavvars>>

\* mutant of ReverbReturn: write_wav is started without waiting for the taps
ReverbReturnEarly ==
    /\ pc = "tap"
    /\ pc' = "wav_fopen"
    /\ UNCHANGED <<mainvars, alloc_failed, bufvars, calls, revvars, wavvars>>

\* apply_reverb returns; the caller goes on to write_wav
ReverbReturn ==
    /\ pc = "tap"
    /\ tap >= num_taps
    /\ pc' = "wav_fopen"
    /\ UNCHANGED <<mainvars, alloc_failed, bufvars, calls, revvars, wavvars>>

(***************************************************************************)
(* write_wav                                                               *)
(***************************************************************************)
NoFile == <<-1>>

\* the bytes of an unsigned value of w bytes as they lie in memory
MemBytes(v, w, order) ==
    LET le == [k \in 1 .. w |-> (v \div (256 ^ (k - 1))) % 256]
    IN  IF order = "little" THEN le ELSE [k \in 1 .. w |-> le[w + 1 - k]]

\* fwrite(&v, 2, 1, f) and fwrite(&v, 4, 1, f): the bytes written
write_u16(v, order) == MemBytes(v % 65536, 2, order)
write_u32(v, order) == MemBytes(v, 4, order)

\* mutant of Clamp16: the clamp left out
NoClamp(v) == v

\* the clamp of lines 169-170
Clamp16(v) == IF v > 32767 THEN 32767 ELSE IF v < -32768 THEN -32768 ELSE v

\* (int16_t)v for an int32 v: the low 16 bits, read as signed
Narrow16(v) == ((v + 32768) % 65536) - 32768

\* the loop of lines 166-173
Interleave(l, r, n) ==
    [k \in 1 .. (n * 2) |->
        IF k % 2 = 1 THEN Narrow16(Clamp16(l[(k - 1) \div 2]))
        ELSE Narrow16(Clamp16(r[(k - 1) \div 2]))]

\* mutant of DataSize: the channel count forgotten
DataSizeMono(n) == n * 2

\* uint32_t data_size = g_num_frames * CHANNELS * sizeof(int16_t)
DataSize(n) == n * CHANNELS * 2

Ascii(str) ==
    IF str = "RIFF" THEN <<82, 73, 70, 70>>
    ELSE IF str = "WAVE" THEN <<87, 65, 86, 69>>
    ELSE IF str = "fmt " THEN <<102, 109, 116, 32>>
    ELSE <<100, 97, 116, 97>>

\* the 13 writes of lines 178-192
HeaderBytes(dsize, fsize, order) ==
    Ascii("RIFF") \o write_u32(fsize, order) \o Ascii("WAVE")
    \o Ascii("fmt ") \o write_u32(16, order) \o write_u16(1, order)
    \o write_u16(CHANNELS, order) \o write_u32(REAL_SAMPLE_RATE, order)
    \o write_u32((REAL_SAMPLE_RATE * CHANNELS * BITS_PER_SAMP) \div 8, order)
    \o write_u16((CHANNELS * BITS_PER_SAMP) \div 8, order)
    \o write_u16(BITS_PER_SAMP, order)
    \o Ascii("data") \o write_u32(dsize, order)

\* fwrite(interleaved, sizeof(int16_t), n * CHANNELS, f): the int16 array as
\* it lies in memory
PayloadBytes(il, order) ==
    [k \in 1 .. (Len(il) * 2) |->
        MemBytes((il[(k + 1) \div 2] + 65536) % 65536, 2, order)[((k - 1) % 2) + 1]]

\* FILE *f = fopen(path, "wb"): creates or truncates the file, or fails
WavFopen ==
    /\ pc = "wav_fopen"
    /\ \/ /\ disk' = <<>>
          /\ f' = "open"
          /\ pc' = "wav_malloc"
          /\ UNCHANGED wav_ret
       \/ /\ wav_ret' = 1
          /\ pc' = "wav_return"
          /\ UNCHANGED <<disk, f>>
    /\ UNCHANGED <<mainvars, alloc_failed, bufvars, calls, revvars, host, interleaved, data_size,
                   file_size, io_failed>>

\* int16_t *interleaved = malloc(...); if (!interleaved) { fclose(f); return 1; }
WavMalloc ==
    /\ pc = "wav_malloc"
    /\ \/ /\ interleaved' = Interleave(g_left, g_right, g_num_frames)
          /\ pc' = "wav_header"
          /\ UNCHANGED <<f, wav_ret, alloc_failed>>
       \/ /\ f' = "closed"
          /\ wav_ret' = 1
          /\ alloc_failed' = TRUE
          /\ pc' = "wav_return"
          /\ UNCHANGED interleaved
    /\ UNCHANGED <<mainvars, bufvars, calls, revvars, host, disk, data_size, file_size,
                   io_failed>>

\* the bytes that reach the file when a write of bs stops short
ShortWrite(bs) == SubSeq(bs, 1, Len(bs) \div 2)

\* lines 175-192: the sizes and the header writes; no result is looked at
WavHeader ==
    /\ pc = "wav_header"
    /\ data_size' = DataSize(g_num_frames)
    /\ file_size' = 36 + DataSize(g_num_frames)
    /\ \E order \in (IF host = "unknown" THEN {"little", "big"} ELSE {host}) :
         /\ host' = order
         /\ LET hdr == HeaderBytes(DataSize(g_num_frames),
                                   36 + DataSize(g_num_frames), order)
            IN  \/ disk' = disk \o hdr /\ io_failed' = FALSE
                \/ disk' = disk \o ShortWrite(hdr) /\ io_failed' = TRUE
    /\ pc' = "wav_data"
    /\ UNCHANGED <<mainvars, alloc_failed, bufvars, calls, revvars, f, interleaved, wav_ret>>

\* line 193: the sample data
WavData ==
    /\ pc = "wav_data"
    /\ LET pay == PayloadBytes(interleaved, host)
       IN  IF io_failed THEN UNCHANGED <<disk, io_failed>>
           ELSE \/ disk' = disk \o pay /\ io_failed' = FALSE
                \/ disk' = disk \o ShortWrite(pay) /\ io_failed' = TRUE
    /\ pc' = "wav_close"
    /\ UNCHANGED <<mainvars, alloc_failed, bufvars, calls, revvars, host, f, interleaved, data_size,
                   file_size, wav_ret>>

\* free(interleaved); fclose(f); return 0;
WavClose ==
    /\ pc = "wav_close"
    /\ interleaved' = NULL
    /\ f' = "closed"
    /\ wav_ret' = 0
    /\ pc' = "wav_return"
    /\ UNCHANGED <<mainvars, alloc_failed, bufvars, calls, revvars, host, disk, data_size, file_size,
                   io_failed>>

(***************************************************************************)
(* The tonal oracle (mahler.h), from its interface: get_scale, get_chord   *)
(* and get_interval                                                        *)
(***************************************************************************)
Note(tone, acci, pitch) == [tone |-> tone, acci |-> acci, pitch |-> pitch]

\* semitones of a note above the C of octave 0
Semitones(nt) == 12 * nt.pitch + SEMITONE_MAP[nt.tone + 1] + nt.acci

\* the note `letters` letter names and `semis` semitones above nt
NoteAbove(nt, letters, semis) ==
    LET tone == (nt.tone + letters) % 7
        pitch == nt.pitch + (nt.tone + letters) \div 7
    IN  Note(tone, Semitones(nt) + semis - (12 * pitch + SEMITONE_MAP[tone + 1]), pitch)

\* semitones of each degree above the root; the last degree is the octave
MAH_MAJOR_SCALE == <<0, 2, 4, 5, 7, 9, 11, 12>>
MAH_NATURAL_MIN_SCALE == <<0, 2, 3, 5, 7, 8, 10, 12>>

\* get_scale(rootPitch, scaleKind, ascending): scale.notes, scale.size = Len
mah_get_scale(root, scale_type) ==
    [k \in 1 .. Len(scale_type) |-> NoteAbove(root, k - 1, scale_type[k])]

\* semitones of each chord tone above the root, stacked in thirds
MAH_MAJOR_TRIAD == <<0, 4, 7>>
MAH_MINOR_TRIAD == <<0, 3, 7>>
MAH_DOMINANT_7 == <<0, 4, 7, 10>>
MAH_MAJOR_7 == <<0, 4, 7, 11>>
MAH_MINOR_7 == <<0, 3, 7, 10>>

\* get_chord(rootPitch, chordKind): chord.notes, chord.size = Len
mah_get_chord(root, ctype) ==
    [k \in 1 .. Len(ctype) |-> NoteAbove(root, 2 * (k - 1), ctype[k])]

\* what get_interval hands back beside its failure
EmptyNote == Note(0, 0, 0)

\* get_interval(rootPitch, 5, perfect): the fifth, or a failure
mah_get_inter(nt, fails) ==
    IF fails THEN [note |-> EmptyNote, err |-> TRUE]
    ELSE [note |-> NoteAbove(nt, 4, 7), err |-> FALSE]

(***************************************************************************)
(* unsigned arithmetic on <<high 16 bits, low 16 bits>>                    *)
(***************************************************************************)
Word == 2 ^ 16

\* hv % m for 0 < m < 2^15
Mod32(hv, m) == ((hv[1] % m) * (Word % m) + (hv[2] % m)) % m

\* hv >> k for 1 <= k <= 16
Shr(hv, k) == hv[1] * 2 ^ (16 - k) + hv[2] \div 2 ^ k

\* h * 33 + ch, modulo 2^32
MulAdd33(hv, ch) ==
    LET p == hv[2] * 33 + ch
    IN  <<(hv[1] * 33 + p \div Word) % Word, p % Word>>

RECURSIVE HashFrom(_, _, _)
\* the loop of lines 204-205 from name[i - 1] on
HashFrom(hv, str, i) ==
    IF i > Len(str) THEN hv ELSE HashFrom(MulAdd33(hv, str[i]), str, i + 1)

\* unsigned h = 5381; for each character h = h * 33 + c
hash_name(str) == HashFrom(<<0, 5381>>, str, 1)

\* 1103515245 = 16838 * 2^16 + 20077
RNG_MUL == <<16838, 20077>>
RNG_INC == 12345

\* g_rng * 1103515245 + 12345, modulo 2^32
rng_next(g) ==
    LET p0 == g[2] * RNG_MUL[2] + RNG_INC
    IN  <<(((g[1] * RNG_MUL[2]) % Word) + ((g[2] * RNG_MUL[1]) % Word) + (p0 \div Word)) % Word,
          p0 % Word>>

\* the value of rng_range(lo, hi) when rng_next() has returned g
rng_range(g, lo, hi) == lo + Mod32(g, hi - lo + 1)

\* mutant of RngSeed: the generator seeded from the clock as well
RngSeedClock(hv, clock) == <<hv[1], (hv[2] + clock) % Word>>

\* g_rng = h
RngSeed(hv, clock) == hv

(***************************************************************************)
(* Catalogs                                                                *)
(***************************************************************************)
PROGRESSIONS ==
    << <<0, 0, 3, 0, 4, 0, 0, 0>>,
       <<0, 0, 5, 1, 3, 0, 4, 0>>,
       <<0, 0, 4, 0, 5, 1, 3, 0>>,
       <<0, 1, 3, 0, 4, 2, 0, 1>>,
       <<0, 1, 5, 0, 2, 0, 4, 2>>,
       <<0, 0, 3, 0, 1, 1, 4, 0>> >>
NUM_PROGRESSIONS == 6
PROG_LEN == 4

ARP_PATTERNS ==
    << <<0, 1, 2, 1, 0, 1, 2, 1>>,
       <<0, 2, 1, 0, 2, 1, 0, 2>>,
       <<0, 0, 1, 1, 2, 2, 1, 0>>,
       <<2, 1, 0, 1, 2, 0, 1, 2>> >>
NUM_ARP_PATTERNS == 4
ARP_LEN == 8

(***************************************************************************)
(* main: the derived parameters                                            *)
(***************************************************************************)
\* mutant of Derived: the progression index masked to three bits, not
\* reduced modulo the catalog length
DerivedMasked(hv) ==
    LET prog_idx == Shr(hv, 5) % 8
    IN  [root_tone |-> Mod32(hv, 7),
         root_acci |-> (Shr(hv, 3) % 3) - 1,
         prog_idx  |-> prog_idx,
         arp_idx   |-> Shr(hv, 8) % NUM_ARP_PATTERNS,
         tempo_bpm |-> 100 + (Shr(hv, 11) % 60),
         is_minor  |-> IF prog_idx >= 3 THEN 1 ELSE 0,
         swing     |-> Shr(hv, 14) % 2]

\* lines 249-255
Derived(hv) ==
    LET prog_idx == Shr(hv, 5) % NUM_PROGRESSIONS
    IN  [root_tone |-> Mod32(hv, 7),
         root_acci |-> (Shr(hv, 3) % 3) - 1,
         prog_idx  |-> prog_idx,
         arp_idx   |-> Shr(hv, 8) % NUM_ARP_PATTERNS,
         tempo_bpm |-> 100 + (Shr(hv, 11) % 60),
         is_minor  |-> IF prog_idx >= 3 THEN 1 ELSE 0,
         swing     |-> Shr(hv, 14) % 2]

\* lines 257-266: the scale of the root at octave 3
ScaleOf(p) ==
    mah_get_scale(Note(p.root_tone, p.root_acci, 3),
                  IF p.is_minor = 1 THEN MAH_NATURAL_MIN_SCALE ELSE MAH_MAJOR_SCALE)

(***************************************************************************)
(* main: time.  The planner's doubles are multiples of 0.01/tempo_bpm s    *)
(***************************************************************************)
\* beat_sec = 60.0 / tempo_bpm
beat_sec == 6000
eighth == beat_sec \div 2
\* mutant of bar_dur: a bar of three beats
BarOfThreeBeats == beat_sec * 3

\* double bar_dur = beat_sec * 4.0
bar_dur == beat_sec * 4
\* swing ? eighth * 0.16 : 0.0
swing_offset(p) == IF p.swing = 1 THEN (eighth * 16) \div 100 ELSE 0

\* a constant number of 1/100 s, in units
Seconds(cs, p) == cs * p.tempo_bpm

\* units to the ticks synth_note_stereo takes
Ticks(u, p) == (u * 100) \div p.tempo_bpm

\* the convenience wrappers, lines 123-133; start and dur in units
synth_melody(p, freq, start, dur, vol, pan) ==
    NoteEvent(freq, Ticks(start, p), Ticks(dur, p), vol, pan, TIMBRE_PIANO, 100, 800, 600, 1200)
synth_pad(p, freq, start, dur, vol, pan) ==
    NoteEvent(freq, Ticks(start, p), Ticks(dur, p), vol, pan, TIMBRE_PAD, 1500, 2000, 700, 3000)
synth_bass(p, freq, start, dur, vol) ==
    NoteEvent(freq, Ticks(start, p), Ticks(dur, p), vol, 50, TIMBRE_BASS, 100, 1000, 800, 800)

RECURSIVE SynthAll(_, _)
\* the calls of synth_note_stereo for the events evs, in order
SynthAll(b, evs) ==
    IF evs = <<>> THEN b
    ELSE SynthAll(synth_note_stereo(b, Head(evs), StartFrame(Head(evs)), LenFrames(Head(evs))),
                  Tail(evs))

(***************************************************************************)
(* main: the planner                                                       *)
(***************************************************************************)
Prog(p) == PROGRESSIONS[p.prog_idx + 1]
ArpPat(p) == ARP_PATTERNS[p.arp_idx + 1]
WithPitch(nt, pitch) == Note(nt.tone, nt.acci, pitch)

\* chord_root = scale_notes[degree % sd]; chord_root.pitch = 3
ChordRoot(p, scale, sdv, cc) == WithPitch(scale[(Prog(p)[cc * 2 + 1] % sdv) + 1], 3)

\* the chord of bar cc: lines 292-297 and 319-323
ChordOf(p, scale, sdv, cc) ==
    LET use_minor == Prog(p)[cc * 2 + 2]
        ctype == IF use_minor = 1 THEN MAH_MINOR_TRIAD
                 ELSE IF use_minor = 2 THEN MAH_DOMINANT_7
                 ELSE MAH_MAJOR_TRIAD
    IN  mah_get_chord(ChordRoot(p, scale, sdv, cc), ctype)

\* intro, lines 299-302: vol = 0.3 + 0.15 * c, pan = 0.35 + 0.1 * i
IntroNotes(p, scale, sdv, cur, cc) ==
    LET chord == ChordOf(p, scale, sdv, cc)
    IN  [i \in 1 .. Len(chord) |->
            synth_pad(p, note_to_freq(chord[i]), cur, (bar_dur * 95) \div 100,
                      300 + 150 * cc, 35 + 10 * (i - 1))]

\* pad chords, lines 334-338
PadNotes(p, scale, sdv, cur, rp, cc) ==
    LET chord == ChordOf(p, scale, sdv, cc)
        pad_vol == IF rp = 2 /\ cc >= 2 THEN 350 ELSE 250
    IN  [i \in 1 .. Len(chord) |->
            synth_pad(p, note_to_freq(chord[i]), cur, (bar_dur * 92) \div 100, pad_vol,
                      25 + (50 * (i - 1)) \div (Len(chord) - 1))]

\* the interval query of lines 351-352, with the err argument NULL
BassFifth(p, scale, sdv, cc, fails) ==
    mah_get_inter(WithPitch(ChordRoot(p, scale, sdv, cc), 2), fails)

\* bass line, lines 342-366
BassNotes(p, scale, sdv, cur, rp, cc, fails) ==
    LET chord == ChordOf(p, scale, sdv, cc)
        bass_freq == note_to_freq(WithPitch(ChordRoot(p, scale, sdv, cc), 2))
        fifth_freq == note_to_freq(BassFifth(p, scale, sdv, cc, fails).note)
        third_freq == note_to_freq(WithPitch(chord[2], 2))
        bass_freqs == <<bass_freq, IF rp >= 1 THEN third_freq ELSE bass_freq,
                        fifth_freq, bass_freq>>
    IN  [b \in 1 .. 4 |->
            synth_bass(p, bass_freqs[b], cur + (b - 1) * beat_sec, (beat_sec * 9) \div 10, 450)]

\* arpeggio, lines 371-385
ArpNotes(p, scale, sdv, cur, cc) ==
    LET chord == ChordOf(p, scale, sdv, cc)
    IN  [a \in 1 .. ARP_LEN |->
            LET ci == ArpPat(p)[a] % Len(chord)
                t_offset == IF (a - 1) % 2 = 1 THEN swing_offset(p) ELSE 0
            IN  NoteEvent(note_to_freq(WithPitch(chord[ci + 1], 4)),
                          Ticks(cur + (a - 1) * eighth + t_offset, p),
                          Ticks((eighth * 7) \div 10, p),
                          300, 62, TIMBRE_PIANO, 50, 500, 400, 1000)]

RECURSIVE WrapUp(_, _)
\* while (mel_pos < 0) mel_pos += sd
WrapUp(pos, sdv) == IF pos < 0 THEN WrapUp(pos + sdv, sdv) ELSE pos

RECURSIVE WrapDownOffByOne(_, _)
\* mutant of WrapDown: the test off by one
WrapDownOffByOne(pos, sdv) == IF pos > sdv THEN WrapDownOffByOne(pos - sdv, sdv) ELSE pos

RECURSIVE WrapDown(_, _)
\* while (mel_pos >= sd) mel_pos -= sd
WrapDown(pos, sdv) == IF pos >= sdv THEN WrapDown(pos - sdv, sdv) ELSE pos

\* mutant of MelStep: the share of the steps (55) taken for their threshold
MelStepAt55(r, g) ==
    IF r < 55 THEN (IF g[2] % 2 = 1 THEN 1 ELSE -1)
    ELSE IF r < 85 THEN 0
    ELSE rng_range(g, -3, 3)

\* the step of a slot that is no rest: r the category drawn, g the value of
\* the rng_next() that follows it (lines 402-404)
MelStep(r, g) ==
    IF r < 65 THEN (IF g[2] % 2 = 1 THEN 1 ELSE -1)
    ELSE IF r < 85 THEN 0
    ELSE rng_range(g, -3, 3)

\* mel_pos after lines 406-410
MelMove(pos, step, sdv) == WrapDown(WrapUp(pos + step, sdv), sdv)

\* mutant of MelodySlot: one draw per slot, used for every decision of it
MelodySlotOneDraw(p, scale, sdv, cur, nn, pos, g0) ==
    LET g1 == rng_next(g0)
        r == rng_range(g1, 0, 99)
    IN  IF r < 10 THEN [draws |-> <<g1>>, mel_pos |-> pos, notes |-> <<>>]
        ELSE
          LET np == MelMove(pos, MelStep(r, g1), sdv)
              on_beat == nn = 0 \/ nn = 4
              dur == IF on_beat /\ rng_range(g1, 0, 2) = 0
                     THEN (beat_sec * 9) \div 10 ELSE eighth
              t_offset == IF nn % 2 = 1 THEN swing_offset(p) ELSE 0
              vel == 450 + (IF on_beat THEN 200 ELSE 100) + (IF nn = 0 THEN 100 ELSE 0)
          IN  [draws |-> <<g1>>,
               mel_pos |-> np,
               notes |-> <<synth_melody(p, note_to_freq(WithPitch(scale[np + 1], 5)),
                                        cur + nn * eighth + t_offset,
                                        (dur * 85) \div 100, vel, 30)>>]

\* one melody slot, lines 394-432: the values g_rng takes, mel_pos after
\* the slot and the note it schedules (none for a rest)
MelodySlot(p, scale, sdv, cur, nn, pos, g0) ==
    LET g1 == rng_next(g0)
        r == rng_range(g1, 0, 99)
    IN  IF r < 10 THEN [draws |-> <<g1>>, mel_pos |-> pos, notes |-> <<>>]
        ELSE
          LET drawn == r < 65 \/ r >= 85
              g2 == IF drawn THEN rng_next(g1) ELSE g1
              np == MelMove(pos, MelStep(r, g2), sdv)
              on_beat == nn = 0 \/ nn = 4
              g3 == IF on_beat THEN rng_next(g2) ELSE g2
              dur == IF on_beat /\ rng_range(g3, 0, 2) = 0
                     THEN (beat_sec * 9) \div 10 ELSE eighth
              t_offset == IF nn % 2 = 1 THEN swing_offset(p) ELSE 0
              vel == 450 + (IF on_beat THEN 200 ELSE 100) + (IF nn = 0 THEN 100 ELSE 0)
          IN  [draws |-> <<g1>> \o (IF drawn THEN <<g2>> ELSE <<>>)
                               \o (IF on_beat THEN <<g3>> ELSE <<>>),
               mel_pos |-> np,
               notes |-> <<synth_melody(p, note_to_freq(WithPitch(scale[np + 1], 5)),
                                        cur + nn * eighth + t_offset,
                                        (dur * 85) \div 100, vel, 30)>>]

RECURSIVE RitCursor(_, _, _)
\* rit_cursor before chord tone i: cursor plus the delays 0.15 + 0.08 * j, j < i
RitCursor(p, cur, i) ==
    IF i = 0 THEN cur ELSE RitCursor(p, cur, i - 1) + Seconds(15 + 8 * (i - 1), p)

\* outro, lines 444-470
OutroNotes(p, scale, cur) ==
    LET final_root == WithPitch(scale[1], 3)
        final_chord == mah_get_chord(final_root,
                                     IF p.is_minor = 1 THEN MAH_MINOR_7 ELSE MAH_MAJOR_7)
    IN  [i \in 1 .. Len(final_chord) |->
            synth_pad(p, note_to_freq(final_chord[i]), RitCursor(p, cur, i - 1),
                      beat_sec * 8, 500, 20 + (60 * (i - 1)) \div (Len(final_chord) - 1))]
        \o <<synth_melody(p, note_to_freq(WithPitch(final_root, 5)), cur + Seconds(30, p),
                          beat_sec * 6, 550, 45),
             synth_bass(p, note_to_freq(WithPitch(final_root, 2)), cur, beat_sec * 8, 500)>>

(***************************************************************************)
(* A fresh process                                                         *)
(***************************************************************************)
NoResult == [done |-> FALSE]

\* the statics and locals of a process that has done nothing yet
InitPlan ==
    /\ h = <<0, 0>>
    /\ g_rng = <<0, 0>>
    /\ par = NULL
    /\ scale_notes = <<>>
    /\ sd = 0
    /\ cursor = 0
    /\ mel_pos = 0
    /\ rep = 0
    /\ chord_c = 0
    /\ slot_n = 0
    /\ rng_trace = <<>>
    /\ oracle_failed = FALSE
    /\ alloc_failed = FALSE
    /\ report = ""
    /\ exit_code = -1
    /\ result = NoResult

(***************************************************************************)
(* SpecSynth: a caller that hands synth_note_stereo arbitrary events, then *)
(* calls apply_reverb and write_wav                                        *)
(***************************************************************************)
\* start times and durations in ticks: before the buffer, inside, across
\* its end, at its end, and beyond what an int holds
CallStarts == {-2500, 0, MAX_SECONDS * TicksPerSec - 1700,
               MAX_SECONDS * TicksPerSec, (MaxInt + 1) * 1000}
CallDurs == {-5000, 0, 4200, (MaxInt + 1) * 1000}
\* <<freq, volume, pan, timbre>>; the caller is free to pass volumes above 1
PadVoice == <<440, 4000, 0, TIMBRE_PAD>>
PianoVoice == <<98, 750, 50, TIMBRE_PIANO>>
\* the calls made: every start with every duration in the pad voice, short
\* piano notes inside the buffer and across its end, and a piano note of
\* 0.1 s, shorter than the attack, decay and release of its envelope
CallEvents ==
    (CallStarts \X CallDurs \X {PadVoice})
        \cup ({0, MAX_SECONDS * TicksPerSec - 1700} \X {4200} \X {PianoVoice})
        \cup ({0} \X {1000} \X {PianoVoice})

InitWav ==
    /\ host = "unknown"
    /\ disk = NoFile
    /\ f = "closed"
    /\ interleaved = NULL
    /\ data_size = 0
    /\ file_size = 0
    /\ io_failed = FALSE
    /\ wav_ret = -1

InitSynth ==
    /\ pc = "calls"
    /\ g_left = Calloc
    /\ g_right = Calloc
    /\ g_num_frames = 0
    /\ stores = {}
    /\ call_start = 0
    /\ call_len = 0
    /\ call_ev = NULL
    /\ calls = 0
    /\ tap = 0
    /\ dry = NULL
    /\ tap_in = NULL
    /\ InitWav
    /\ name = <<>>
    /\ inter_fails = FALSE
    /\ run_no = 0
    /\ prev = [run |-> NoResult, disk |-> NoFile]
    /\ InitPlan

\* the caller calls synth_note_stereo: lines 102-103 convert the times
SynthEnter ==
    /\ pc = "calls"
    /\ calls < MaxCalls
    /\ \E c \in CallEvents :
         LET v == c[3]
             e == NoteEvent(v[1], c[1], c[2], v[2], v[3], v[4], 100, 800, 600, 1200)
         IN  /\ call_ev' = e
             /\ call_start' \in ToIntSet(StartFrame(e))
             /\ call_len' \in ToIntSet(LenFrames(e))
    /\ pc' = "synth_loop"
    /\ UNCHANGED <<mainvars, alloc_failed, g_left, g_right, g_num_frames, stores, calls, revvars, wavvars>>

\* the loop of lines 107-119, and the return
SynthLoop ==
    /\ pc = "synth_loop"
    /\ LET b == synth_note_stereo(Buffers, call_ev, call_start, call_len)
       IN  /\ g_left' = b.left
           /\ g_right' = b.right
           /\ g_num_frames' = b.num_frames
           /\ stores' = b.stores
    /\ call_ev' = NULL
    /\ call_start' = 0
    /\ call_len' = 0
    /\ calls' = calls + 1
    /\ pc' = "calls"
    /\ UNCHANGED <<mainvars, alloc_failed, revvars, wavvars>>

\* the caller has rendered its events and calls apply_reverb
CallReverb ==
    /\ pc = "calls"
    /\ calls = MaxCalls
    /\ pc' = "apply_reverb"
    /\ stores' = {}
    /\ UNCHANGED <<mainvars, alloc_failed, g_left, g_right, g_num_frames, call_start, call_len, call_ev,
                   calls, revvars, wavvars>>

NextSynth ==
    \/ SynthEnter
    \/ SynthLoop
    \/ CallReverb
    \/ ReverbEnter
    \/ ReverbTap
    \/ ReverbReturn
    \/ WavFopen
    \/ WavMalloc
    \/ WavHeader
    \/ WavData
    \/ WavClose

SpecSynth == InitSynth /\ [][NextSynth]_vars

(***************************************************************************)
(* main                                                                    *)
(***************************************************************************)
\* the names the program is run with: "Mahler" (the default) and "Alexis"
Names == {<<77, 97, 104, 108, 101, 114>>, <<65, 108, 101, 120, 105, 115>>}

Init ==
    /\ pc = "main"
    /\ name \in Names
    /\ inter_fails \in BOOLEAN
    /\ run_no = 1
    /\ prev = [run |-> NoResult, disk |-> NoFile]
    /\ g_left = NULL
    /\ g_right = NULL
    /\ g_num_frames = 0
    /\ stores = {}
    /\ call_start = 0
    /\ call_len = 0
    /\ call_ev = NULL
    /\ calls = 0
    /\ tap = 0
    /\ dry = NULL
    /\ tap_in = NULL
    /\ InitWav
    /\ InitPlan

\* lines 241-242
MainStart ==
    /\ pc = "main"
    /\ h' = hash_name(name)
    /\ g_rng' = RngSeed(hash_name(name), run_no)
    /\ rng_trace' = <<RngSeed(hash_name(name), run_no)>>
    /\ pc' = "calloc"
    /\ UNCHANGED <<idvars, par, scale_notes, sd, cursor, mel_pos, rep, chord_c, slot_n,
                   oracle_failed, outvars, alloc_failed, bufvars, calls, revvars, wavvars>>

\* lines 244-246: either calloc may fail
MainCalloc ==
    /\ pc = "calloc"
    /\ \E ok_left \in BOOLEAN, ok_right \in BOOLEAN :
         /\ g_left' = IF ok_left THEN Calloc ELSE NULL
         /\ g_right' = IF ok_right THEN Calloc ELSE NULL
         /\ IF ok_left /\ ok_right
            THEN /\ pc' = "derive"
                 /\ UNCHANGED <<alloc_failed, exit_code>>
            ELSE /\ alloc_failed' = TRUE
                 /\ exit_code' = 1
                 /\ pc' = "exit"
    /\ UNCHANGED <<idvars, planvars, report, result, g_num_frames, stores, call_start,
                   call_len, call_ev, calls, revvars, wavvars>>

\* lines 249-284
Derive ==
    /\ pc = "derive"
    /\ par' = Derived(h)
    /\ scale_notes' = ScaleOf(Derived(h))
    /\ sd' = Len(ScaleOf(Derived(h))) - 1
    /\ cursor' = 0
    /\ chord_c' = 0
    /\ pc' = "intro"
    /\ UNCHANGED <<idvars, h, g_rng, mel_pos, rep, slot_n, rng_trace, oracle_failed,
                   outvars, alloc_failed, bufvars, calls, revvars, wavvars>>

\* one turn of the loop of lines 287-304
IntroBar ==
    /\ pc = "intro"
    /\ chord_c < 2
    /\ SetBuffers(SynthAll(Buffers, IntroNotes(par, scale_notes, sd, cursor, chord_c)))
    /\ cursor' = cursor + bar_dur
    /\ chord_c' = chord_c + 1
    /\ UNCHANGED <<pc, idvars, h, g_rng, par, scale_notes, sd, mel_pos, rep, slot_n,
                   rng_trace, oracle_failed, outvars, alloc_failed, call_start, call_len,
                   call_ev, calls, revvars, wavvars>>

\* lines 309-312: int mel_pos = sd / 2, and the loops are entered
MainSection ==
    /\ pc = "intro"
    /\ chord_c = 2
    /\ mel_pos' = sd \div 2
    /\ rep' = 0
    /\ chord_c' = 0
    /\ pc' = "pad"
    /\ UNCHANGED <<idvars, h, g_rng, par, scale_notes, sd, cursor, slot_n, rng_trace,
                   oracle_failed, outvars, alloc_failed, bufvars, calls, revvars, wavvars>>

\* lines 313-338
PadChords ==
    /\ pc = "pad"
    /\ SetBuffers(SynthAll(Buffers, PadNotes(par, scale_notes, sd, cursor, rep, chord_c)))
    /\ pc' = "bass"
    /\ UNCHANGED <<mainvars, alloc_failed, call_start, call_len, call_ev, calls, revvars,
                   wavvars>>

\* lines 341-367: the failure of the interval query is not looked at
BassLine ==
    /\ pc = "bass"
    /\ oracle_failed' =
         (oracle_failed \/ BassFifth(par, scale_notes, sd, chord_c, inter_fails).err)
    /\ SetBuffers(SynthAll(Buffers, BassNotes(par, scale_notes, sd, cursor, rep, chord_c,
                                              inter_fails)))
    /\ pc' = "arp"
    /\ UNCHANGED <<idvars, h, g_rng, par, scale_notes, sd, cursor, mel_pos, rep, chord_c,
                   slot_n, rng_trace, outvars, alloc_failed, call_start, call_len, call_ev,
                   calls, revvars, wavvars>>

\* lines 370-391
Arpeggio ==
    /\ pc = "arp"
    /\ SetBuffers(SynthAll(Buffers, ArpNotes(par, scale_notes, sd, cursor, chord_c)))
    /\ slot_n' = 0
    /\ pc' = "melody"
    /\ UNCHANGED <<idvars, h, g_rng, par, scale_notes, sd, cursor, mel_pos, rep, chord_c,
                   rng_trace, oracle_failed, outvars, alloc_failed, call_start, call_len,
                   call_ev, calls, revvars, wavvars>>

\* one turn of the loop of lines 393-433
MelodyNote ==
    /\ pc = "melody"
    /\ slot_n < 8
    /\ LET m == MelodySlot(par, scale_notes, sd, cursor, slot_n, mel_pos, g_rng)
       IN  /\ g_rng' = m.draws[Len(m.draws)]
           /\ rng_trace' = rng_trace \o m.draws
           /\ mel_pos' = m.mel_pos
           /\ SetBuffers(SynthAll(Buffers, m.notes))
    /\ slot_n' = slot_n + 1
    /\ UNCHANGED <<pc, idvars, h, par, scale_notes, sd, cursor, rep, chord_c,
                   oracle_failed, outvars, alloc_failed, call_start, call_len, call_ev,
                   calls, revvars, wavvars>>

\* line 436 and the loop heads of lines 311-312
BarEnd ==
    /\ pc = "melody"
    /\ slot_n = 8
    /\ cursor' = cursor + bar_dur
    /\ chord_c' = IF chord_c + 1 < PROG_LEN THEN chord_c + 1 ELSE 0
    /\ rep' = IF chord_c + 1 < PROG_LEN THEN rep ELSE rep + 1
    /\ pc' = IF chord_c + 1 < PROG_LEN \/ rep + 1 < 3 THEN "pad" ELSE "outro"
    /\ UNCHANGED <<idvars, h, g_rng, par, scale_notes, sd, mel_pos, slot_n, rng_trace,
                   oracle_failed, outvars, alloc_failed, bufvars, calls, revvars, wavvars>>

\* lines 443-477: the outro, and apply_reverb is called
Outro ==
    /\ pc = "outro"
    /\ SetBuffers(SynthAll(Buffers, OutroNotes(par, scale_notes, cursor)))
    /\ cursor' = cursor + beat_sec * 10
    /\ pc' = "apply_reverb"
    /\ UNCHANGED <<idvars, h, g_rng, par, scale_notes, sd, mel_pos, rep, chord_c, slot_n,
                   rng_trace, oracle_failed, outvars, alloc_failed, call_start, call_len,
                   call_ev, calls, revvars, wavvars>>

\* lines 490-512: the result of write_wav is printed, the buffers are freed
\* and main returns 0
Report ==
    /\ pc = "wav_return"
    /\ report' = IF wav_ret = 0 THEN "Wrote" ELSE "Failed"
    /\ exit_code' = 0
    /\ result' = [done |-> TRUE, par |-> par, rng_trace |-> rng_trace,
                  num_frames |-> g_num_frames, left |-> g_left, right |-> g_right,
                  complete |-> (wav_ret = 0 /\ ~io_failed)]
    /\ g_left' = NULL
    /\ g_right' = NULL
    /\ pc' = "exit"
    /\ UNCHANGED <<idvars, planvars, alloc_failed, g_num_frames, stores, call_start,
                   call_len, call_ev, calls, revvars, wavvars>>

\* the program is run again, with the same arguments, on the file it wrote
Rerun ==
    /\ pc = "exit"
    /\ run_no < MaxRuns
    /\ result.done
    /\ result.complete
    /\ prev' = [run |-> result, disk |-> disk]
    /\ run_no' = run_no + 1
    /\ pc' = "main"
    /\ g_left' = NULL
    /\ g_right' = NULL
    /\ g_num_frames' = 0
    /\ stores' = {}
    /\ tap' = 0
    /\ dry' = NULL
    /\ tap_in' = NULL
    /\ f' = "closed"
    /\ interleaved' = NULL
    /\ data_size' = 0
    /\ file_size' = 0
    /\ io_failed' = FALSE
    /\ wav_ret' = -1
    /\ h' = <<0, 0>>
    /\ g_rng' = <<0, 0>>
    /\ par' = NULL
    /\ scale_notes' = <<>>
    /\ sd' = 0
    /\ cursor' = 0
    /\ mel_pos' = 0
    /\ rep' = 0
    /\ chord_c' = 0
    /\ slot_n' = 0
    /\ rng_trace' = <<>>
    /\ oracle_failed' = FALSE
    /\ alloc_failed' = FALSE
    /\ report' = ""
    /\ exit_code' = -1
    /\ result' = NoResult
    /\ UNCHANGED <<name, inter_fails, call_start, call_len, call_ev, calls, host, disk>>

Next ==
    \/ MainStart
    \/ MainCalloc
    \/ Derive
    \/ IntroBar
    \/ MainSection
    \/ PadChords
    \/ BassLine
    \/ Arpeggio
    \/ MelodyNote
    \/ BarEnd
    \/ Outro
    \/ ReverbEnter
    \/ ReverbTap
    \/ ReverbReturn
    \/ WavFopen
    \/ WavMalloc
    \/ WavHeader
    \/ WavData
    \/ WavClose
    \/ Report
    \/ Rerun

Spec == Init /\ [][Next]_vars

(***************************************************************************)
(* Claims checked under SpecSynth                                          *)
(***************************************************************************)
\* the frames start .. start+len-1 that lie in the buffer, in unbounded
\* arithmetic: what the loop may store to
Window(start, len) == {c \in Frames : start <= c /\ c < start + len}

\* C1: a call of synth_note_stereo stores to no frame outside
\* [0, MAX_FRAMES): it stores exactly to the frames start .. start+len-1
\* that lie in the buffer (no index is wrapped into it), every other cell of
\* both arrays and of the memory around them keeps its value, a call whose
\* start frame is at or after MAX_FRAMES or whose length is <= 0 changes
\* neither channel nor g_num_frames
C1_WritesStayInBuffer ==
    [][pc = "synth_loop" =>
         /\ stores' = Window(call_start, call_len)
         /\ \A c \in Cells \ stores' : g_left'[c] = g_left[c] /\ g_right'[c] = g_right[c]
         /\ (call_start >= MAX_FRAMES \/ call_len <= 0) =>
               /\ g_left' = g_left
               /\ g_right' = g_right
               /\ g_num_frames' = g_num_frames]_vars

\* C1 witness: a call that starts inside the buffer and runs past its end
\* has stored its first frames and dropped the rest
C1_Witness ==
    /\ pc = "calls"
    /\ calls > 0
    /\ stores # {}
    /\ \A c \in stores : c >= MAX_FRAMES - 3
    /\ g_num_frames = MAX_FRAMES

\* the accumulator values and the int16 samples write_wav made of them
SamplesOf(l, r, n) ==
    [k \in 1 .. (n * 2) |-> IF k % 2 = 1 THEN l[(k - 1) \div 2] ELSE r[(k - 1) \div 2]]

FromBytes(bs, order) ==
    LET w == Len(bs)
        at(k) == IF order = "little" THEN bs[k] ELSE bs[w + 1 - k]
    IN  IF w = 2 THEN at(1) + 256 * at(2)
        ELSE at(1) + 256 * at(2) + 65536 * at(3) + 16777216 * at(4)

Signed16(u) == IF u >= 32768 THEN u - 65536 ELSE u

\* C4: write_wav declares dataSize = 2 * channelCount * frameCount and RIFF
\* size = 36 + dataSize, in its locals and in the header it writes, and when
\* it returns 0 with no write cut short the file is the 44-byte header
\* followed by exactly dataSize bytes: frame i's clamped left sample, then
\* its clamped right sample
C4_HeaderSizes ==
    pc \in {"wav_data", "wav_close", "wav_return"} /\ data_size + file_size > 0 =>
        /\ data_size = 2 * CHANNELS * g_num_frames
        /\ file_size = 36 + data_size
        /\ (pc = "wav_return" /\ wav_ret = 0 /\ ~io_failed) =>
             /\ Len(disk) = 44 + data_size
             /\ FromBytes(SubSeq(disk, 5, 8), host) = file_size
             /\ FromBytes(SubSeq(disk, 41, 44), host) = data_size
             /\ \A i \in 0 .. (g_num_frames - 1) :
                  /\ Signed16(FromBytes(SubSeq(disk, 45 + 4 * i, 46 + 4 * i), host))
                       = Clamp16(g_left[i])
                  /\ Signed16(FromBytes(SubSeq(disk, 47 + 4 * i, 48 + 4 * i), host))
                       = Clamp16(g_right[i])

\* C4 witness: a complete file for a full buffer
C4_Witness ==
    /\ pc = "wav_return"
    /\ wav_ret = 0
    /\ ~io_failed
    /\ g_num_frames = MAX_FRAMES

\* one channel after a tap run, from the channel before it: frames d .. n-1
\* have gained the echo of the frame d before them as it is now, in the
\* array being written
TapDone(now, before, n, t) ==
    \A c \in Cells :
        now[c] = IF c >= Delay(t) /\ c < n
                 THEN before[c] + Echo(now[c - Delay(t)], gains[t + 1])
                 ELSE before[c]

\* every tap reading the buffer as it was on entry of apply_reverb
IndependentTaps(orig, n) ==
    [c \in Cells |->
        IF c >= 0 /\ c < n
        THEN orig[c] + Echo(IF c >= Delay(0) THEN orig[c - Delay(0)] ELSE 0, gains[1])
                     + Echo(IF c >= Delay(1) THEN orig[c - Delay(1)] ELSE 0, gains[2])
                     + Echo(IF c >= Delay(2) THEN orig[c - Delay(2)] ELSE 0, gains[3])
                     + Echo(IF c >= Delay(3) THEN orig[c - Delay(3)] ELSE 0, gains[4])
                     + Echo(IF c >= Delay(4) THEN orig[c - Delay(4)] ELSE 0, gains[5])
        ELSE orig[c]]

\* C5: apply_reverb runs its 5 taps one after another in increasing-delay
\* order; each tap run adds to frame i the echo of frame i - d of the same
\* running buffer (as the earlier taps and this tap have left it), in the
\* left and in the right channel alike, each channel from its own values
C5_TapsInPlace ==
    /\ \A t \in 1 .. (num_taps - 1) : delays[t] < delays[t + 1]
    /\ \A t \in 0 .. (num_taps - 2) : Delay(t) < Delay(t + 1)
    /\ (pc = "tap" /\ tap > 0) =>
         /\ TapDone(g_left, tap_in.left, g_num_frames, tap - 1)
         /\ TapDone(g_right, tap_in.right, g_num_frames, tap - 1)

\* C5 witness: the reverb has finished and its result is not the sum of
\* five taps each computed from the dry buffer
C5_Witness ==
    /\ pc = "tap"
    /\ tap = num_taps
    /\ g_left # IndependentTaps(dry.left, g_num_frames)
    /\ g_right # IndependentTaps(dry.right, g_num_frames)

\* the header of a file of the given sizes, least significant byte first
HeaderLittleEndian(dsize, fsize) == HeaderBytes(dsize, fsize, "little")

\* C7: every multi-byte header field is written least significant byte
\* first, whatever the byte order of the host
C7_HeaderLittleEndian ==
    (pc \in {"wav_data", "wav_close", "wav_return"} /\ data_size + file_size > 0
        /\ ~io_failed) =>
        SubSeq(disk, 1, 44) = HeaderLittleEndian(data_size, file_size)

MelodyLive == pc \in {"pad", "bass", "arp", "melody", "outro"}

\* C6: from int mel_pos = sd / 2 on and after every melody slot,
\* 0 <= mel_pos < sd = scale.size - 1, so scale_notes[mel_pos] is a note of
\* the scale; and from any degree in that range every move of a slot (step,
\* repeat, leap of -3 .. 3) ends in that range
C6_MelPosInRange ==
    /\ MelodyLive =>
          /\ sd = Len(scale_notes) - 1
          /\ mel_pos >= 0
          /\ mel_pos < sd
          /\ (mel_pos + 1) \in DOMAIN scale_notes
    /\ \A pos \in 0 .. (sd - 1), step \in -3 .. 3 :
          /\ MelMove(pos, step, sd) >= 0
          /\ MelMove(pos, step, sd) < sd

\* the ninth slot of "Mahler" has stepped down from degree 0 and come out
\* at the top degree
C6_Witness ==
    /\ pc = "melody"
    /\ name = <<77, 97, 104, 108, 101, 114>>
    /\ rep = 0
    /\ chord_c = 1
    /\ slot_n = 1
    /\ sd = 7
    /\ mel_pos = sd - 1
    /\ MelMove(0, -1, sd) = mel_pos

\* fopen has failed, or a write to the stream has
WriteFailed == (wav_ret = 1 /\ ~alloc_failed) \/ io_failed

\* C8: when the file cannot be opened or a write to it fails (in a run whose
\* oracle queries have all succeeded), write_wav returns non-zero, main
\* prints the failure and the output path holds what it held before the run
C8_WriteFailureReported ==
    (pc = "exit" /\ result.done /\ WriteFailed /\ ~oracle_failed) =>
        /\ wav_ret # 0
        /\ report = "Failed"
        /\ disk = prev.disk

\* C9: once the interval query of the bass line has failed, generation has
\* stopped with an error: no further note is planned and main exits non-zero
C9_IntervalFailurePropagated ==
    oracle_failed => (pc = "exit" /\ exit_code # 0 /\ report # "Wrote")

\* C10: when an allocation of the run has failed (either accumulator or the
\* interleave buffer; in a run whose oracle queries have all succeeded), the
\* run is over with an error status and the output path holds what it held
\* before the run: not created, truncated or written
C10_AllocFailureBeforeFile ==
    (alloc_failed /\ ~oracle_failed) =>
        /\ disk = prev.disk
        /\ pc \in {"wav_return", "exit"}
        /\ (pc = "exit" => exit_code # 0)

(***************************************************************************)
(* Accumulation of the voices (SpecSynth)                                  *)
(***************************************************************************)
\* the event the caller makes of an entry of CallEvents
EventOf(entry) ==
    LET v == entry[3]
    IN  NoteEvent(v[1], entry[1], entry[2], v[2], v[3], v[4], 100, 800, 600, 1200)

\* what one call adds to frame idx of a channel: (int32_t)(sample * gain)
\* on the frames its loop stores to, nothing elsewhere
Contribution(ev, start, len, gain, idx) ==
    IF Hit(start, len, idx)
    THEN TruncDiv(Sample(ev, LoopIndex(start, idx)) * gain, 1000)
    ELSE 0

\* the two orders of the pending call and another call, from the buffers b
SwapAgrees(b, ev, start, len, ev2, start2, len2) ==
    LET one == synth_note_stereo(synth_note_stereo(b, ev, start, len), ev2, start2, len2)
        two == synth_note_stereo(synth_note_stereo(b, ev2, start2, len2), ev, start, len)
    IN  /\ one.left = two.left
        /\ one.right = two.right
        /\ one.num_frames = two.num_frames
        /\ \A idx \in Frames :
             /\ one.left[idx] = b.left[idx]
                   + Contribution(ev, start, len, LeftGain(ev.pan), idx)
                   + Contribution(ev2, start2, len2, LeftGain(ev2.pan), idx)
             /\ one.right[idx] = b.right[idx]
                   + Contribution(ev, start, len, RightGain(ev.pan), idx)
                   + Contribution(ev2, start2, len2, RightGain(ev2.pan), idx)

\* the other calls the pending call is swapped with: both voices inside
\* the buffer and across its end, and a pad note that fills the buffer
SwapPartners ==
    {entry \in CallEvents :
        \/ entry[1] \in {0, MAX_SECONDS * TicksPerSec - 1700} /\ entry[2] = 4200
        \/ entry[1] = 0 /\ entry[2] > 4200}

\* C11: accumulation is commutative: from the buffers the calls so far have
\* left, the pending call and any other call leave the same left and right
\* accumulators and the same g_num_frames in either order, and every frame
\* holds its former value plus the exact integer contribution of each call
C11_AccumulationCommutes ==
    (pc = "synth_loop" /\ calls <= 1) =>
        \A entry \in SwapPartners :
            \A start2 \in ToIntSet(StartFrame(EventOf(entry))),
               len2 \in ToIntSet(LenFrames(EventOf(entry))) :
                SwapAgrees(Buffers, call_ev, call_start, call_len,
                           EventOf(entry), start2, len2)

\* C11 witness: a second call is about to add to a frame that already holds
\* the contribution of another voice, and the two values differ
C11_Witness ==
    /\ pc = "synth_loop"
    /\ calls = 1
    /\ \E idx \in Frames :
         LET v == Contribution(call_ev, call_start, call_len, LeftGain(call_ev.pan), idx)
         IN  v # 0 /\ g_left[idx] # 0 /\ g_left[idx] # v

(***************************************************************************)
(* Order of the stages of a run (Spec)                                     *)
(***************************************************************************)
\* control is in apply_reverb, in write_wav or at its return
ReverbPcs == {"apply_reverb", "tap"}
WavPcs == {"wav_fopen", "wav_malloc", "wav_header", "wav_data", "wav_close",
           "wav_return"}

\* the 2 intro bars, the 3 x 4 main bars and the outro have been rendered
AllVoicesWritten ==
    /\ rep = 3
    /\ chord_c = 0
    /\ slot_n = 8
    /\ cursor = (2 + 3 * PROG_LEN) * bar_dur + 10 * beat_sec

\* the accumulators are read by a stage only after the stage before it
StagesInOrder ==
    /\ pc \in ReverbPcs \cup WavPcs => AllVoicesWritten
    /\ pc \in WavPcs => tap = num_taps /\ dry # NULL

\* C12: in every run the accumulator is not read until all voices have
\* written: apply_reverb is entered once, from the end of the outro, with
\* every intro, main and outro bar rendered; write_wav runs only after the
\* last tap and interleaves the accumulators the reverb has left; once the
\* reverb has started nothing but its taps stores to the accumulators
C12_ReadAfterAllWrites ==
    [][/\ StagesInOrder
       /\ StagesInOrder'
       /\ pc' = "apply_reverb" => pc = "outro"
       /\ pc \in ReverbPcs \cup WavPcs => pc' \in ReverbPcs \cup WavPcs \cup {"exit"}
       /\ (pc = "tap" /\ pc' = "tap") => tap' = tap + 1
       /\ pc \in {"apply_reverb"} \cup (WavPcs \ {"wav_return"}) =>
              /\ g_left' = g_left
              /\ g_right' = g_right
              /\ g_num_frames' = g_num_frames
       /\ (pc = "wav_malloc" /\ pc' = "wav_header") =>
              interleaved' = Interleave(g_left, g_right, g_num_frames)]_vars

\* C12 witness: a run has rendered all its bars, run the five taps over a
\* buffer that holds sound, and written the result in full
C12_Witness ==
    /\ pc = "wav_return"
    /\ AllVoicesWritten
    /\ tap = num_taps
    /\ g_num_frames > 0
    /\ g_left # dry.left
    /\ wav_ret = 0
    /\ ~io_failed

(***************************************************************************)
(* Gain of the reverb (SpecSynth)                                          *)
(***************************************************************************)
Abs(x) == IF x < 0 THEN -x ELSE x

RECURSIVE MaxAbs(_, _, _)
\* the largest magnitude among the frames lo .. hi of a
MaxAbs(a, lo, hi) ==
    IF lo >= hi THEN Abs(a[lo])
    ELSE LET mid == (lo + hi) \div 2
             low == MaxAbs(a, lo, mid)
             high == MaxAbs(a, mid + 1, hi)
         IN  IF low >= high THEN low ELSE high

RECURSIVE SumGains(_)
\* the sum of the first t tap gains, in percent
SumGains(t) == IF t = 0 THEN 0 ELSE SumGains(t - 1) + gains[t]

\* the frames of a after apply_reverb stay within A x (1 + sum of the tap
\* gains), A the largest magnitude of the dry frames
WithinGainSum(a, orig, n) ==
    n > 0 => MaxAbs(a, 0, n - 1) * 100 <= MaxAbs(orig, 0, n - 1) * (100 + SumGains(num_taps))

(***************************************************************************)
(* SpecReverb: apply_reverb run on a given dry buffer                      *)
(***************************************************************************)
\* the dry buffers: levels within the int16 range, held, alternating in sign
\* from frame to frame, or in a single frame, over n frames
DryLevels == {-30000, -1, 700, 20000}
DryShapes == {"held", "alternating", "impulse"}
DryLengths == {3, 16, 40}

DryBuffer(level, shape, len) ==
    [idx \in Cells |->
        IF idx < 0 \/ idx >= len THEN 0
        ELSE IF shape = "held" THEN level
        ELSE IF shape = "alternating" THEN (IF idx % 2 = 0 THEN level ELSE -level)
        ELSE IF idx = 0 THEN level ELSE 0]

InitReverb ==
    /\ pc = "apply_reverb"
    /\ \E level \in DryLevels, shape \in DryShapes, len \in DryLengths :
         /\ g_left = DryBuffer(level, shape, len)
         /\ g_right = DryBuffer(-level, shape, len)
         /\ g_num_frames = len
    /\ stores = {}
    /\ call_start = 0
    /\ call_len = 0
    /\ call_ev = NULL
    /\ calls = 0
    /\ tap = 0
    /\ dry = NULL
    /\ tap_in = NULL
    /\ InitWav
    /\ name = <<>>
    /\ inter_fails = FALSE
    /\ run_no = 0
    /\ prev = [run |-> NoResult, disk |-> NoFile]
    /\ InitPlan

NextReverb ==
    \/ ReverbEnter
    \/ ReverbTap
    \/ ReverbReturn

SpecReverb == InitReverb /\ [][NextReverb]_vars

\* C13: in the reverb catalog the tap delays strictly increase and the tap
\* gains strictly decrease, and after apply_reverb every frame is bounded in
\* magnitude by A x (1 + sum of the tap gains), A the bound of the dry buffer
C13_ReverbGainBound ==
    /\ \A t \in 1 .. num_taps - 1 : delays[t] < delays[t + 1] /\ gains[t] > gains[t + 1]
    /\ (pc = "tap" /\ tap = num_taps) =>
          /\ WithinGainSum(g_left, dry.left, g_num_frames)
          /\ WithinGainSum(g_right, dry.right, g_num_frames)

(***************************************************************************)
(* The derived parameters (Spec)                                           *)
(***************************************************************************)
\* x with bit k flipped, 0 <= k < 16
FlipBit16(x, k) == IF (x \div 2 ^ k) % 2 = 1 THEN x - 2 ^ k ELSE x + 2 ^ k

\* the 32-bit hv with bit k flipped
FlipBit(hv, k) ==
    IF k < 16 THEN <<hv[1], FlipBit16(hv[2], k)>>
    ELSE <<FlipBit16(hv[1], k - 16), hv[2]>>

\* the parameters sliced from the bits of h
SlicedParams == {"root_tone", "root_acci", "prog_idx", "arp_idx", "tempo_bpm", "swing"}

\* the sliced parameters that change when bit k of hv is flipped
ReadersOfBit(hv, k) ==
    {fld \in SlicedParams : Derived(FlipBit(hv, k))[fld] # Derived(hv)[fld]}

\* C14: each bit-sliced parameter is a function of the static hash only
\* (not of the PRNG state, which moves on while the parameters stay) and
\* reads a bit window disjoint from the windows of the others: a bit of the
\* hash lies in at most one window, so changing it changes at most one
\* parameter
C14_DisjointBitWindows ==
    par # NULL =>
        /\ par = Derived(h)
        /\ \A k \in 0 .. 31 : Cardinality(ReadersOfBit(h, k)) <= 1

(***************************************************************************)
(* The random stream (Spec)                                                *)
(***************************************************************************)
\* the category drawn by the slot that is about to run
SlotCategory == rng_range(rng_next(g_rng), 0, 99)

\* the draws the slot that is about to run makes: the category; the
\* direction of a step or the size of a leap; on slots 0 and 4 that are no
\* rest, the long note
SlotDraws ==
    1 + (IF SlotCategory >= 10 /\ (SlotCategory < 65 \/ SlotCategory >= 85) THEN 1 ELSE 0)
      + (IF SlotCategory >= 10 /\ slot_n \in {0, 4} THEN 1 ELSE 0)

\* the step has appended k values to rng_trace, each rng_next of the one
\* before it, and g_rng is the last of them
Advanced(k) ==
    /\ Len(rng_trace') = Len(rng_trace) + k
    /\ SubSeq(rng_trace', 1, Len(rng_trace)) = rng_trace
    /\ \A i \in Len(rng_trace) + 1 .. Len(rng_trace') :
         rng_trace'[i] = rng_next(rng_trace'[i - 1])
    /\ g_rng' = rng_trace'[Len(rng_trace')]

\* the stream is seeded once per run, with the hash, and moves by the
\* recurrence in melody slots only
SeededAndMelodyOnly ==
    /\ pc = "main" => g_rng' = hash_name(name) /\ rng_trace' = <<g_rng'>>
    /\ pc \notin {"main", "melody", "exit"} => g_rng' = g_rng /\ rng_trace' = rng_trace
    /\ (pc = "melody" /\ slot_n = 8) => g_rng' = g_rng /\ rng_trace' = rng_trace
    /\ rng_trace # <<>> => g_rng = rng_trace[Len(rng_trace)]

\* C15 as stated: the stream is the recurrence state * 1103515245 + 12345
\* mod 2^32, seeded once with the hash, and every melody slot consumes one
\* draw whatever its category; no other voice advances it
C15_OneDrawPerSlot ==
    [][/\ SeededAndMelodyOnly
       /\ (pc = "melody" /\ slot_n < 8) => Advanced(1)]_vars

\* C15 as amended: every melody slot consumes one draw for the category,
\* one more for the direction of a step or the size of a leap, and one more
\* on slots 0 and 4 that are no rest: 1 to 3 draws of the recurrence per
\* slot; the stream is seeded once with the hash and no other voice
\* advances it
C15_DrawsPerSlot ==
    [][/\ SeededAndMelodyOnly
       /\ (pc = "melody" /\ slot_n < 8) => Advanced(SlotDraws)]_vars

\* C15 witness: the twelve main bars are done and their 96 slots have made
\* more than 96 draws
C15_Witness ==
    /\ pc = "outro"
    /\ Len(rng_trace) - 1 > 3 * PROG_LEN * 8
    /\ Len(rng_trace) - 1 < 3 * 3 * PROG_LEN * 8

(***************************************************************************)
(* Continuity of the envelope (SpecSynth)                                  *)
(***************************************************************************)
\* the envelope of the event ev at t ticks into the note
EnvAt(ev, t) == envelope(t, ev.dur, ev.atk, ev.dec, ev.sus, ev.rel)

\* the release of ev as capped by line 41
ReleaseOf(ev) == IF ev.rel * 10 > ev.dur * 4 THEN TruncDiv(ev.dur * 4, 10) ELSE ev.rel

\* the times at which a phase of the envelope of ev ends: attack, decay,
\* sustain and the note itself
PhaseEnds(ev) ==
    {b \in {ev.atk, ev.atk + ev.dec, ev.dur - ReleaseOf(ev), ev.dur} : 0 < b /\ b <= ev.dur}

\* the most the envelope of ev moves in one tick within a phase, pm
SlopeOf(ev) ==
    LET up == 1000 \div ev.atk
        down == (1000 - ev.sus) \div ev.dec
        out == IF ReleaseOf(ev) = 0 THEN ev.sus ELSE ev.sus \div ReleaseOf(ev)
        steep == IF up >= down THEN up ELSE down
    IN  (IF steep >= out THEN steep ELSE out) + 1

\* the gain is 0 at t = 0 and at t = D and makes no jump where a phase ends
EnvelopeContinuous(ev) ==
    /\ EnvAt(ev, 0) = 0
    /\ EnvAt(ev, ev.dur) = 0
    /\ \A b \in PhaseEnds(ev) : Abs(EnvAt(ev, b) - EnvAt(ev, b - 1)) <= SlopeOf(ev)

\* C16: for every note duration D > 0 and the envelope preset of the voice,
\* with the release capped at 0.4 x D, the envelope gain is 0 at t = 0, goes
\* to 0 at t = D and has the same value on both sides of every phase
\* boundary
C16_EnvelopeContinuous ==
    (pc = "synth_loop" /\ call_ev.dur > 0) => EnvelopeContinuous(call_ev)

(***************************************************************************)
(* Table and sequence accesses of the planner (Spec)                       *)
(***************************************************************************)
\* seed hashes: low halves spread over all 16 bits, four high halves
SeedHashes == {<<hi, 37 * k>> : hi \in {0, 1, 32767, 65535}, k \in 0 .. 1771}

\* the parameters lines 249-255 can derive, as far as they index a table
IndexParams ==
    [root_tone : 0 .. 6, root_acci : -1 .. 1, prog_idx : 0 .. NUM_PROGRESSIONS - 1,
     arp_idx : 0 .. NUM_ARP_PATTERNS - 1, tempo_bpm : {100}, is_minor : {0, 1},
     swing : {0}]

\* the derived parameters are within their catalogs
ParamsInRange(p) ==
    /\ p.root_tone \in 0 .. 6
    /\ p.root_acci \in -1 .. 1
    /\ p.prog_idx + 1 \in DOMAIN PROGRESSIONS
    /\ p.arp_idx + 1 \in DOMAIN ARP_PATTERNS
    /\ p.tempo_bpm \in 100 .. 159
    /\ p.swing \in {0, 1}
    /\ p.is_minor = (IF p.prog_idx >= 3 THEN 1 ELSE 0)

\* every access of bar cc: prog[c * 2] and prog[c * 2 + 1], scale_notes[degree
\* % sd], chord.notes[1] of the bass, chord.notes[arp_pat[a] % chord.size]
BarInRange(p, scale, sdv, cc) ==
    /\ cc * 2 + 1 \in DOMAIN Prog(p)
    /\ cc * 2 + 2 \in DOMAIN Prog(p)
    /\ (Prog(p)[cc * 2 + 1] % sdv) + 1 \in DOMAIN scale
    /\ LET chord == ChordOf(p, scale, sdv, cc)
       IN  /\ Len(chord) = (IF Prog(p)[cc * 2 + 2] = 2 THEN 4 ELSE 3)
           /\ 2 \in DOMAIN chord
           /\ \A a \in 1 .. ARP_LEN :
                /\ a \in DOMAIN ArpPat(p)
                /\ (ArpPat(p)[a] % Len(chord)) + 1 \in DOMAIN chord

\* every access of a run with the parameters p
PlanInRange(p) ==
    /\ ParamsInRange(p)
    /\ Len(ScaleOf(p)) - 1 > 0
    /\ Len(ScaleOf(p)) <= 16
    /\ \A cc \in 0 .. PROG_LEN - 1 : BarInRange(p, ScaleOf(p), Len(ScaleOf(p)) - 1, cc)

\* C17: for every seed hash, every table and sequence access of the planner
\* is in range: the progression and arpeggio indices lie in their catalogs,
\* every chord root degree is taken modulo the usable scale degrees, every
\* arpeggio chord-tone index modulo the chord size (3 for triads, 4 for
\* sevenths), and the bass third (chord tone 1) exists
C17_AccessesInRange ==
    /\ pc = "derive" =>
          /\ \A hv \in SeedHashes \cup {h} : ParamsInRange(Derived(hv))
          /\ \A p \in IndexParams :
                p.is_minor = (IF p.prog_idx >= 3 THEN 1 ELSE 0) => PlanInRange(p)
    /\ par # NULL =>
          /\ PlanInRange(par)
          /\ scale_notes = ScaleOf(par)
          /\ sd = Len(scale_notes) - 1

\* C17 witness: the arpeggio of a bar of the second repetition is due over
\* a seventh chord, whose four tones the pattern indexes modulo 4, and the
\* bass of the bar has played the chord's third
C17_Witness ==
    /\ pc = "arp"
    /\ rep >= 1
    /\ Len(ChordOf(par, scale_notes, sd, chord_c)) = 4
    /\ g_num_frames > 0

(***************************************************************************)
(* The melody slot (Spec)                                                  *)
(***************************************************************************)
\* the draw that follows the category draw of the slot about to run
SecondDraw == rng_next(rng_next(g_rng))

\* the scale degree pos moved by step and wrapped into 0 .. sd - 1
Wrapped(pos, step) == (pos + step + sd) % sd

\* what the slot about to run schedules
SlotNotes == MelodySlot(par, scale_notes, sd, cursor, slot_n, mel_pos, g_rng).notes

\* C18: in each melody slot the category draw r is in 0..99 and decides the
\* move: r < 10 is a rest (the accumulators and the scale-degree cursor are
\* unchanged); 10 <= r < 65 moves the cursor by +1 or -1; 65 <= r < 85
\* leaves it unchanged; r >= 85 moves it by a value in -3 .. 3; every slot
\* that is no rest adds exactly one melody note to the accumulators, over a
\* window of frames that is not empty, at the pitch of the wrapped cursor
\* position
C18_SlotCategories ==
    [][(pc = "melody" /\ slot_n < 8) =>
          /\ SlotCategory \in 0 .. 99
          /\ SlotCategory < 10 =>
                /\ mel_pos' = mel_pos
                /\ g_left' = g_left /\ g_right' = g_right /\ g_num_frames' = g_num_frames
          /\ (10 <= SlotCategory /\ SlotCategory < 65) =>
                \E step \in {-1, 1} :
                    /\ step = 1 <=> SecondDraw[2] % 2 = 1
                    /\ mel_pos' = Wrapped(mel_pos, step)
          /\ (65 <= SlotCategory /\ SlotCategory < 85) => mel_pos' = mel_pos
          /\ SlotCategory >= 85 =>
                \E step \in -3 .. 3 :
                    /\ step = Mod32(SecondDraw, 7) - 3
                    /\ mel_pos' = Wrapped(mel_pos, step)
          /\ SlotCategory >= 10 =>
                /\ Len(SlotNotes) = 1
                /\ SlotNotes[1].timbre = TIMBRE_PIANO
                /\ SlotNotes[1].freq = note_to_freq(WithPitch(scale_notes[mel_pos' + 1], 5))
                /\ LET b == synth_note_stereo(Buffers, SlotNotes[1],
                                              StartFrame(SlotNotes[1]),
                                              LenFrames(SlotNotes[1]))
                   IN  /\ g_left' = b.left
                       /\ g_right' = b.right
                       /\ g_num_frames' = b.num_frames
                       /\ stores' = b.stores
                       /\ stores' # {}]_vars

\* C18 witness: after melody notes of earlier bars, a slot is about to leap
\* past an end of the scale and wrap
C18_Witness ==
    /\ pc = "melody"
    /\ slot_n < 8
    /\ rep >= 1
    /\ SlotCategory >= 85
    /\ mel_pos + (Mod32(SecondDraw, 7) - 3) \notin 0 .. sd - 1

(***************************************************************************)
(* The time cursor and the sections (Spec)                                 *)
(***************************************************************************)
IntroPcs == {"intro"}
MainPcs == {"pad", "bass", "arp", "melody"}

\* the bars rendered in full before the bar control is in
BarsDone ==
    IF pc \in IntroPcs THEN chord_c
    ELSE IF pc \in MainPcs THEN 2 + rep * PROG_LEN + chord_c
    ELSE 2 + 3 * PROG_LEN

\* the events the step about to be taken schedules
StepNotes ==
    IF pc = "intro" /\ chord_c < 2 THEN IntroNotes(par, scale_notes, sd, cursor, chord_c)
    ELSE IF pc = "pad" THEN PadNotes(par, scale_notes, sd, cursor, rep, chord_c)
    ELSE IF pc = "bass"
         THEN BassNotes(par, scale_notes, sd, cursor, rep, chord_c, inter_fails)
    ELSE IF pc = "arp" THEN ArpNotes(par, scale_notes, sd, cursor, chord_c)
    ELSE IF pc = "melody" /\ slot_n < 8 THEN SlotNotes
    ELSE IF pc = "outro" THEN OutroNotes(par, scale_notes, cursor)
    ELSE <<>>

\* bar k starts at 4 x k beats of 60 / tempo seconds, and no event of the
\* bar starts before it
CursorOnBar ==
    pc \in IntroPcs \cup MainPcs \cup {"outro"} =>
        /\ cursor = 4 * BarsDone * beat_sec
        /\ Ticks(cursor, par) = (4 * BarsDone * 60 * TicksPerSec) \div par.tempo_bpm
        /\ \A i \in 1 .. Len(StepNotes) : StepNotes[i].start >= Ticks(cursor, par)
        /\ pc \in IntroPcs => \A i \in 1 .. Len(StepNotes) : StepNotes[i].timbre = TIMBRE_PAD

\* C19: the time cursor never decreases and advances by exactly one bar (4
\* beats, beat = 60 / tempo) after each of the 2 intro bars and each of the
\* 12 main bars, so bar k starts at 4 x k beats, the main section at 8
\* beats and the outro at 56 beats; the sections run in the order intro,
\* main, outro; the intro schedules pad events only and no event of a bar
\* starts before the bar
C19_CursorAndSections ==
    [][/\ CursorOnBar
       /\ CursorOnBar'
       /\ pc # "exit" => cursor' >= cursor
       /\ pc' \in IntroPcs => pc \in {"derive"} \cup IntroPcs
       /\ pc' \in MainPcs => pc \in IntroPcs \cup MainPcs
       /\ (pc \in IntroPcs /\ pc' \in MainPcs) =>
              chord_c = 2 /\ cursor' = 8 * beat_sec /\ rep' = 0 /\ chord_c' = 0
       /\ pc' = "outro" =>
              pc \in MainPcs \cup {"outro"} /\ rep' = 3 /\ cursor' = 56 * beat_sec
       /\ (pc = "intro" /\ chord_c < 2) \/ (pc = "melody" /\ slot_n = 8) =>
              cursor' = cursor + 4 * beat_sec
       /\ pc \in {"pad", "bass", "arp"} \/ (pc = "melody" /\ slot_n < 8) =>
              cursor' = cursor]_vars

\* C19 witness: the outro is due at 56 beats, after 14 bars of sound
C19_Witness ==
    /\ pc = "outro"
    /\ cursor = 56 * beat_sec
    /\ rep = 3
    /\ g_num_frames > 0

(***************************************************************************)
(* The arrangement fits the buffers (Spec)                                 *)
(***************************************************************************)
\* the loop of synth_note_stereo for ev runs inside the buffer and ends
\* before its last frame
EndsInBuffer(ev) ==
    /\ StartFrame(ev) >= 0
    /\ LenFrames(ev) > 0
    /\ StartFrame(ev) + LenFrames(ev) < MAX_FRAMES

AllEndInBuffer(evs) == \A i \in 1 .. Len(evs) : EndsInBuffer(evs[i])

\* the parameters of the run at another tempo and swing setting
AtTempo(p, bpm, sw) == [p EXCEPT !.tempo_bpm = bpm, !.swing = sw]

\* the melody notes a bar can hold: each slot, short or lengthened
MelodyShapes(p, cur) ==
    {synth_melody(p, 440,
                  cur + nn * eighth + (IF nn % 2 = 1 THEN swing_offset(p) ELSE 0),
                  (d * 85) \div 100, 750, 30) :
        nn \in 0 .. 7, d \in {eighth, (beat_sec * 9) \div 10}}

\* every event of bar k of a run with the parameters p ends in the buffer
BarEndsInBuffer(p, k) ==
    LET cur == k * bar_dur
        scale == ScaleOf(p)
        sdv == Len(ScaleOf(p)) - 1
        cc == (k - 2) % PROG_LEN
        rp == (k - 2) \div PROG_LEN
    IN  IF k < 2 THEN AllEndInBuffer(IntroNotes(p, scale, sdv, cur, k))
        ELSE /\ AllEndInBuffer(PadNotes(p, scale, sdv, cur, rp, cc))
             /\ AllEndInBuffer(BassNotes(p, scale, sdv, cur, rp, cc, FALSE))
             /\ AllEndInBuffer(ArpNotes(p, scale, sdv, cur, cc))
             /\ \A ev \in MelodyShapes(p, cur) : EndsInBuffer(ev)

\* every event of a run with the parameters p ends in the buffer
PlanEndsInBuffer(p) ==
    /\ \A k \in 0 .. 2 + 3 * PROG_LEN - 1 : BarEndsInBuffer(p, k)
    /\ AllEndInBuffer(OutroNotes(p, ScaleOf(p), (2 + 3 * PROG_LEN) * bar_dur))

\* C20: for every tempo the seed can select (100..159 BPM) and either swing
\* setting, every note event of the intro, the main section and the outro
\* ends before the capacity of the buffers (start frame + length <
\* MAX_FRAMES), so the bounds test drops no frame of the arrangement and
\* g_num_frames < MAX_FRAMES when the file is encoded
C20_ArrangementFits ==
    /\ pc = "intro" =>
          \A bpm \in 100 .. 159, sw \in {0, 1} : PlanEndsInBuffer(AtTempo(par, bpm, sw))
    /\ par # NULL => AllEndInBuffer(StepNotes)
    /\ pc \in IntroPcs \cup MainPcs \cup {"outro"} \cup ReverbPcs =>
          stores \subseteq Frames
    /\ g_num_frames < MAX_FRAMES

\* C20 witness: the file of a whole arrangement is being encoded from fewer
\* frames than the buffers hold, the last of them stored by the outro
C20_Witness ==
    /\ pc = "wav_data"
    /\ AllVoicesWritten
    /\ g_num_frames > 0
    /\ g_num_frames < MAX_FRAMES
    /\ data_size = DataSize(g_num_frames)

(***************************************************************************)
(* g_num_frames and the silence after it (SpecSynth)                       *)
(***************************************************************************)
\* g_num_frames is within the buffer and every cell from it on is zero in
\* both channels
SilentFromNumFrames ==
    /\ 0 <= g_num_frames
    /\ g_num_frames <= MAX_FRAMES
    /\ \A idx \in Cells : idx >= g_num_frames => g_left[idx] = 0 /\ g_right[idx] = 0

\* after a call g_num_frames is one more than the highest frame stored to
\* so far: above every frame of the call, and moved only onto the frame
\* after one of them
NumFramesTracksStores ==
    /\ \A idx \in stores' : idx < g_num_frames'
    /\ g_num_frames' # g_num_frames => (g_num_frames' - 1) \in stores'

\* a step of apply_reverb leaves alone g_num_frames, the frames from it on
\* and the frames before the shortest delay
ReverbKeepsBounds ==
    /\ g_num_frames' = g_num_frames
    /\ \A idx \in Cells :
         (idx >= g_num_frames \/ idx < Delay(0)) =>
             g_left'[idx] = g_left[idx] /\ g_right'[idx] = g_right[idx]

\* C21: in every reachable state 0 <= g_num_frames <= MAX_FRAMES,
\* g_num_frames never decreases and is one more than the highest frame
\* index written so far (0 if none), and every frame at an index >=
\* g_num_frames is zero in both channels; apply_reverb preserves this: it
\* leaves g_num_frames unchanged, writes no frame at an index >=
\* g_num_frames and leaves the frames before the shortest delay unchanged
C21_NumFramesInvariant ==
    [][/\ SilentFromNumFrames
       /\ SilentFromNumFrames'
       /\ g_num_frames' >= g_num_frames
       /\ calls = 0 => g_num_frames = 0
       /\ pc = "synth_loop" => NumFramesTracksStores
       /\ pc # "synth_loop" => g_num_frames' = g_num_frames
       /\ pc \in {"apply_reverb", "tap"} => ReverbKeepsBounds]_vars

\* C21 witness: the five taps have changed a buffer that ends before
\* MAX_FRAMES with sound in its last frames; the echo of those frames
\* would fall past g_num_frames, where both channels are still zero
C21_Witness ==
    /\ pc = "tap"
    /\ tap = num_taps
    /\ g_num_frames > Delay(0)
    /\ g_num_frames < MAX_FRAMES
    /\ g_left # dry.left
    /\ g_left[g_num_frames - Delay(0)] # 0
    /\ g_left[g_num_frames] = 0
    /\ g_right[g_num_frames] = 0

====
